---- MODULE Spec2Model ----
(***************************************************************************)
(* Model of src/Main.c: a grid with walls, the single shortest-path search *)
(* dijkstra_find_path, and the click handler whose End click runs the      *)
(* search up to K_PATHS times while labelling the cells each path used.    *)
(*                                                                         *)
(* GRID_WIDTH, GRID_HEIGHT and K_PATHS are compile-time constants of the   *)
(* program.  They are variables here, chosen once in Init and never        *)
(* changed, so that one model covers several builds of the program.        *)
(***************************************************************************)
EXTENDS Integers, Sequences, FiniteSets, TLC

VARIABLES GRID_WIDTH, GRID_HEIGHT, K_PATHS,
          grid, grid_path_type, start, end,
          start_selected, end_selected, paths_found_and_drawn,
          searches, outcome

\* the program's own state (src/Main.c:44-50)
prog == <<grid, grid_path_type, start, end,
          start_selected, end_selected, paths_found_and_drawn>>
build == <<GRID_WIDTH, GRID_HEIGHT, K_PATHS>>
vars == <<GRID_WIDTH, GRID_HEIGHT, K_PATHS, grid, grid_path_type, start, end,
          start_selected, end_selected, paths_found_and_drawn,
          searches, outcome>>

----------------------------------------------------------------------------
\* Bounds of the model
MaxWidth == 3
MaxHeight == 3
MaxK == 3
MaxWalls == 2
MaxRanked == 2

\* Program constants
CELL_SIZE == 40
INT_MAX == 2147483647

----------------------------------------------------------------------------
\* Points and grids

Pt(px, py) == [x |-> px, y |-> py]
NoPoint == Pt(-1, -1)

Xs == 0 .. (GRID_WIDTH - 1)
Ys == 0 .. (GRID_HEIGHT - 1)
Cells == {Pt(i, j) : i \in Xs, j \in Ys}

InBounds(x, y) == x >= 0 /\ x < GRID_WIDTH /\ y >= 0 /\ y < GRID_HEIGHT

\* C integer division: truncation toward zero
CDiv(a, b) == IF a >= 0 THEN a \div b ELSE -((-a) \div b)

screen_to_grid(screen_x, screen_y) ==
    Pt(CDiv(screen_x, CELL_SIZE), CDiv(screen_y, CELL_SIZE))

\* mutant: labelled cells are not treated as blocked
is_valid_position_IgnoresPaths(g, gpt, x, y) ==
    /\ x >= 0 /\ x < GRID_WIDTH /\ y >= 0 /\ y < GRID_HEIGHT
    /\ g[y][x] # "CELL_WALL"

is_valid_position(g, gpt, x, y) ==
    /\ x >= 0 /\ x < GRID_WIDTH /\ y >= 0 /\ y < GRID_HEIGHT
    /\ g[y][x] # "CELL_WALL"
    /\ gpt[y][x] = "CELL_EMPTY"

----------------------------------------------------------------------------
\* dijkstra_find_path

\* mutant: the left neighbour is tried before the right one
dx_LeftFirst == <<0, -1, 0, 1>>

dx == <<0, 1, 0, -1>>
dy == <<-1, 0, 1, 0>>

NoPath == [points |-> <<>>, length |-> 0, cost |-> -1]

\* mutant: the newest entry is extracted instead of the cheapest
MinIndex_Last(nodes) == Len(nodes)

\* index (1-based) of the first entry of minimum cost, as the linear scan
\* with a strict comparison finds it
MinIndex(nodes) ==
    CHOOSE i \in 1 .. Len(nodes) :
        \A j \in 1 .. Len(nodes) :
            /\ nodes[i].cost <= nodes[j].cost
            /\ (j < i => nodes[j].cost > nodes[i].cost)

\* nodes[min_index] = nodes[--node_count]
RemoveAt(nodes, min_index) ==
    [i \in 1 .. (Len(nodes) - 1) |->
        IF i = min_index THEN nodes[Len(nodes)] ELSE nodes[i]]

\* mutant: every legal neighbour is pushed, visited or not, improved or not
ExploreOne_AlwaysPush(st, g, gpt, e, cx, cy, i) ==
    LET nx == cx + dx[i + 1]
        ny == cy + dy[i + 1]
        is_neighbor_end == (nx = e.x /\ ny = e.y)
    IN  IF ~is_neighbor_end /\ ~is_valid_position(g, gpt, nx, ny) THEN st
        ELSE LET new_cost == st.dist[cy][cx] + 1
                 better == ~st.visited[ny][nx] /\ new_cost < st.dist[ny][nx]
             IN  [st EXCEPT !.dist[ny][nx] = IF better THEN new_cost ELSE @,
                            !.parent[ny][nx] = IF better THEN Pt(cx, cy) ELSE @,
                            !.nodes = Append(st.nodes,
                                        [pos |-> Pt(nx, ny), cost |-> new_cost]),
                            !.peak = IF Len(st.nodes) + 1 > st.peak
                                     THEN Len(st.nodes) + 1 ELSE st.peak]

\* mutant: the sink is not exempt from the validity test
ExploreOne_NoSinkException(st, g, gpt, e, cx, cy, i) ==
    LET nx == cx + dx[i + 1]
        ny == cy + dy[i + 1]
    IN  IF ~is_valid_position(g, gpt, nx, ny) THEN st
        ELSE IF st.visited[ny][nx] THEN st
        ELSE LET new_cost == st.dist[cy][cx] + 1 IN
             IF new_cost < st.dist[ny][nx]
             THEN [st EXCEPT !.dist[ny][nx] = new_cost,
                             !.parent[ny][nx] = Pt(cx, cy),
                             !.nodes = Append(st.nodes,
                                         [pos |-> Pt(nx, ny), cost |-> new_cost]),
                             !.peak = IF Len(st.nodes) + 1 > st.peak
                                      THEN Len(st.nodes) + 1 ELSE st.peak]
             ELSE st

\* one iteration of the neighbour loop, for direction i in 0..3
ExploreOne(st, g, gpt, e, cx, cy, i) ==
    LET nx == cx + dx[i + 1]
        ny == cy + dy[i + 1]
        is_neighbor_end == (nx = e.x /\ ny = e.y)
    IN  IF ~is_neighbor_end /\ ~is_valid_position(g, gpt, nx, ny) THEN st
        ELSE IF st.visited[ny][nx] THEN st
        ELSE LET new_cost == st.dist[cy][cx] + 1 IN
             IF new_cost < st.dist[ny][nx]
             THEN [st EXCEPT !.dist[ny][nx] = new_cost,
                             !.parent[ny][nx] = Pt(cx, cy),
                             !.nodes = Append(st.nodes,
                                         [pos |-> Pt(nx, ny), cost |-> new_cost]),
                             !.peak = IF Len(st.nodes) + 1 > st.peak
                                      THEN Len(st.nodes) + 1 ELSE st.peak]
             ELSE st

RECURSIVE ExploreNeighbors(_, _, _, _, _, _, _)
ExploreNeighbors(st, g, gpt, e, cx, cy, i) ==
    IF i >= 4 THEN st
    ELSE ExploreNeighbors(ExploreOne(st, g, gpt, e, cx, cy, i),
                          g, gpt, e, cx, cy, i + 1)

\* the while (node_count > 0) loop
RECURSIVE SearchLoop(_, _, _, _)
SearchLoop(st, g, gpt, e) ==
    IF Len(st.nodes) = 0 THEN st
    ELSE LET min_index == MinIndex(st.nodes)
             current == st.nodes[min_index]
             cx == current.pos.x
             cy == current.pos.y
             st1 == [st EXCEPT !.nodes = RemoveAt(st.nodes, min_index),
                               !.iterations = @ + 1]
         IN  IF st1.visited[cy][cx] THEN SearchLoop(st1, g, gpt, e)
             ELSE LET st2 == [st1 EXCEPT !.visited[cy][cx] = TRUE] IN
                  IF cx = e.x /\ cy = e.y
                  THEN [st2 EXCEPT !.path_found = TRUE, !.current = current]
                  ELSE SearchLoop(ExploreNeighbors(st2, g, gpt, e, cx, cy, 0),
                                  g, gpt, e)

\* while (at.x != -1 && at.y != -1): the path from end back to start
RECURSIVE ReversePath(_, _, _, _)
ReversePath(at, parent, s, acc) ==
    IF at.x # -1 /\ at.y # -1
    THEN IF at.x = s.x /\ at.y = s.y THEN Append(acc, at)
         ELSE ReversePath(parent[at.y][at.x], parent, s, Append(acc, at))
    ELSE acc

\* mutant: the path is returned in end-to-start order
Reverse_Identity(sq) == sq

Reverse(sq) == [i \in 1 .. Len(sq) |-> sq[Len(sq) + 1 - i]]

SearchInit(s) ==
    [dist |-> [y \in Ys |-> [x \in Xs |->
                  IF x = s.x /\ y = s.y THEN 0 ELSE INT_MAX]],
     visited |-> [y \in Ys |-> [x \in Xs |-> FALSE]],
     parent |-> [y \in Ys |-> [x \in Xs |-> NoPoint]],
     nodes |-> <<[pos |-> s, cost |-> 0]>>,
     current |-> [pos |-> NoPoint, cost |-> 0],
     path_found |-> FALSE,
     peak |-> 1,
     iterations |-> 0]

VisitedCount(st) ==
    Cardinality({c \in Cells : st.visited[c.y][c.x]})

\* the early return of lines 97-105: start is blocked
StartIsBlocked(g, gpt, s, e) ==
    /\ ~is_valid_position(g, gpt, s.x, s.y)
    /\ ~(~is_valid_position(g, gpt, e.x, e.y) /\ gpt[e.y][e.x] # "CELL_EMPTY")

\* a whole invocation: the path returned, with the number of cells it marked
\* visited, the largest node_count it reached and the number of iterations
\* of its while loop
dijkstra_run(g, gpt, s, e) ==
    IF StartIsBlocked(g, gpt, s, e)
    THEN [path |-> NoPath, explored |-> 0, peak |-> 0, iterations |-> 0]
    ELSE LET st == SearchLoop(SearchInit(s), g, gpt, e) IN
         IF st.path_found
         THEN LET rev == ReversePath(e, st.parent, s, <<>>) IN
              [path |-> [points |-> Reverse(rev),
                         length |-> Len(rev),
                         cost |-> st.current.cost],
               explored |-> VisitedCount(st), peak |-> st.peak,
               iterations |-> st.iterations]
         ELSE [path |-> NoPath, explored |-> VisitedCount(st), peak |-> st.peak,
               iterations |-> st.iterations]

dijkstra_find_path(g, gpt, s, e) == dijkstra_run(g, gpt, s, e).path

----------------------------------------------------------------------------
\* handle_click: the K-pass loop of the End click

\* switch (i) of lines 327-334
PathType(i) ==
    CASE i = 0 -> "CELL_PATH_1"
      [] i = 1 -> "CELL_PATH_2"
      [] i = 2 -> "CELL_PATH_3"
      [] i = 3 -> "CELL_PATH_4"
      [] i = 4 -> "CELL_PATH_5"
      [] OTHER -> "CELL_EMPTY"

\* mutant: Start and End are labelled like the other cells of the path
RECURSIVE MarkPath_EndpointsToo(_, _, _, _, _, _)
MarkPath_EndpointsToo(gpt, path, p_idx, s, e, current_path_type) ==
    IF p_idx >= path.length THEN gpt
    ELSE LET p == path.points[p_idx + 1] IN
         MarkPath_EndpointsToo([gpt EXCEPT ![p.y][p.x] = current_path_type],
                               path, p_idx + 1, s, e, current_path_type)

\* mutant: no cell is labelled
MarkPath_None(gpt, path, p_idx, s, e, current_path_type) == gpt

\* lines 337-348: label every point of the path except start and end
RECURSIVE MarkPath(_, _, _, _, _, _)
MarkPath(gpt, path, p_idx, s, e, current_path_type) ==
    IF p_idx >= path.length THEN gpt
    ELSE LET p == path.points[p_idx + 1] IN
         IF (p.x = s.x /\ p.y = s.y) \/ (p.x = e.x /\ p.y = e.y)
         THEN MarkPath(gpt, path, p_idx + 1, s, e, current_path_type)
         ELSE MarkPath([gpt EXCEPT ![p.y][p.x] = current_path_type],
                       path, p_idx + 1, s, e, current_path_type)

\* mutant: the loop goes on after a search that found nothing
RECURSIVE KPassLoop_NoBreak(_, _, _, _, _, _)
KPassLoop_NoBreak(i, g, gpt, s, e, runs) ==
    IF i >= K_PATHS THEN [gpt |-> gpt, runs |-> runs]
    ELSE LET run == dijkstra_run(g, gpt, s, e) IN
         KPassLoop_NoBreak(i + 1, g,
                           IF run.path.cost = -1 THEN gpt
                           ELSE MarkPath(gpt, run.path, 0, s, e, PathType(i)),
                           s, e, Append(runs, run))

\* lines 314-349: iteration i of the loop and all later ones; runs are the
\* invocations of dijkstra_find_path made so far, in order
RECURSIVE KPassLoop(_, _, _, _, _, _)
KPassLoop(i, g, gpt, s, e, runs) ==
    IF i >= K_PATHS THEN [gpt |-> gpt, runs |-> runs]
    ELSE LET run == dijkstra_run(g, gpt, s, e) IN
         IF run.path.cost = -1
         THEN [gpt |-> gpt, runs |-> Append(runs, run)]
         ELSE KPassLoop(i + 1, g,
                        MarkPath(gpt, run.path, 0, s, e, PathType(i)),
                        s, e, Append(runs, run))

\* mutant: a click on a wall is accepted
ClickedWall_Never(grid_pos) == FALSE

\* line 293
ClickedWall(grid_pos) == grid[grid_pos.y][grid_pos.x] = "CELL_WALL"

\* mutant: the End click does not set paths_found_and_drawn
handle_click_DoneNotMarked(x, y) ==
    LET grid_pos == screen_to_grid(x, y) IN
    /\ UNCHANGED build
    /\ IF grid_pos.x < 0 \/ grid_pos.x >= GRID_WIDTH
          \/ grid_pos.y < 0 \/ grid_pos.y >= GRID_HEIGHT
       THEN UNCHANGED <<prog, searches>> /\ outcome' = "out_of_bounds"
       ELSE IF paths_found_and_drawn
       THEN UNCHANGED <<prog, searches>> /\ outcome' = "already_found"
       ELSE IF ClickedWall(grid_pos)
       THEN UNCHANGED <<prog, searches>> /\ outcome' = "wall"
       ELSE IF ~start_selected
       THEN /\ start' = grid_pos
            /\ grid' = [grid EXCEPT ![grid_pos.y][grid_pos.x] = "CELL_START"]
            /\ start_selected' = TRUE
            /\ UNCHANGED <<grid_path_type, end, end_selected,
                           paths_found_and_drawn, searches>>
            /\ outcome' = "start_set"
       ELSE IF ~end_selected
       THEN IF ~(grid_pos.x = start.x /\ grid_pos.y = start.y)
            THEN LET g1 == [grid EXCEPT ![grid_pos.y][grid_pos.x] = "CELL_END"]
                     r == KPassLoop(0, g1, grid_path_type, start, grid_pos, <<>>)
                 IN  /\ end' = grid_pos
                     /\ grid' = g1
                     /\ end_selected' = TRUE
                     /\ paths_found_and_drawn' = paths_found_and_drawn
                     /\ grid_path_type' = r.gpt
                     /\ searches' = r.runs
                     /\ UNCHANGED <<start, start_selected>>
                     /\ outcome' = "end_set"
            ELSE UNCHANGED <<prog, searches>> /\ outcome' = "end_on_start"
       ELSE UNCHANGED <<prog, searches>> /\ outcome' = "none"

handle_click(x, y) ==
    LET grid_pos == screen_to_grid(x, y) IN
    /\ UNCHANGED build
    /\ IF grid_pos.x < 0 \/ grid_pos.x >= GRID_WIDTH
          \/ grid_pos.y < 0 \/ grid_pos.y >= GRID_HEIGHT
       THEN UNCHANGED <<prog, searches>> /\ outcome' = "out_of_bounds"
       ELSE IF paths_found_and_drawn
       THEN UNCHANGED <<prog, searches>> /\ outcome' = "already_found"
       ELSE IF ClickedWall(grid_pos)
       THEN UNCHANGED <<prog, searches>> /\ outcome' = "wall"
       ELSE IF ~start_selected
       THEN /\ start' = grid_pos
            /\ grid' = [grid EXCEPT ![grid_pos.y][grid_pos.x] = "CELL_START"]
            /\ start_selected' = TRUE
            /\ UNCHANGED <<grid_path_type, end, end_selected,
                           paths_found_and_drawn, searches>>
            /\ outcome' = "start_set"
       ELSE IF ~end_selected
       THEN IF ~(grid_pos.x = start.x /\ grid_pos.y = start.y)
            THEN LET g1 == [grid EXCEPT ![grid_pos.y][grid_pos.x] = "CELL_END"]
                     r == KPassLoop(0, g1, grid_path_type, start, grid_pos, <<>>)
                 IN  /\ end' = grid_pos
                     /\ grid' = g1
                     /\ end_selected' = TRUE
                     /\ paths_found_and_drawn' = TRUE
                     /\ grid_path_type' = r.gpt
                     /\ searches' = r.runs
                     /\ UNCHANGED <<start, start_selected>>
                     /\ outcome' = "end_set"
            ELSE UNCHANGED <<prog, searches>> /\ outcome' = "end_on_start"
       ELSE UNCHANGED <<prog, searches>> /\ outcome' = "none"

\* mutant: the main grid is left as it is
reset_grid_KeepsKinds ==
    /\ grid' = grid
    /\ grid_path_type' = [y \in Ys |-> [x \in Xs |-> "CELL_EMPTY"]]
    /\ start_selected' = FALSE
    /\ end_selected' = FALSE
    /\ paths_found_and_drawn' = FALSE
    /\ start' = NoPoint
    /\ end' = NoPoint
    /\ searches' = <<>>
    /\ outcome' = "reset"
    /\ UNCHANGED build

\* mutant: the walls are cleared with the other cells
reset_grid_ClearsWalls ==
    /\ grid' = [y \in Ys |-> [x \in Xs |-> "CELL_EMPTY"]]
    /\ grid_path_type' = [y \in Ys |-> [x \in Xs |-> "CELL_EMPTY"]]
    /\ start_selected' = FALSE
    /\ end_selected' = FALSE
    /\ paths_found_and_drawn' = FALSE
    /\ start' = NoPoint
    /\ end' = NoPoint
    /\ searches' = <<>>
    /\ outcome' = "reset"
    /\ UNCHANGED build

reset_grid ==
    /\ grid' = [y \in Ys |-> [x \in Xs |->
                  IF grid[y][x] # "CELL_WALL" THEN "CELL_EMPTY" ELSE grid[y][x]]]
    /\ grid_path_type' = [y \in Ys |-> [x \in Xs |-> "CELL_EMPTY"]]
    /\ start_selected' = FALSE
    /\ end_selected' = FALSE
    /\ paths_found_and_drawn' = FALSE
    /\ start' = NoPoint
    /\ end' = NoPoint
    /\ searches' = <<>>
    /\ outcome' = "reset"
    /\ UNCHANGED build

\* the wall masks rand() % 4 == 0 can produce, up to MaxWalls walls
WallMasks == {S \in SUBSET Cells : Cardinality(S) <= MaxWalls}

FreshGrid(walls) ==
    /\ grid = [y \in Ys |-> [x \in Xs |->
                 IF Pt(x, y) \in walls THEN "CELL_WALL" ELSE "CELL_EMPTY"]]
    /\ grid_path_type = [y \in Ys |-> [x \in Xs |-> "CELL_EMPTY"]]
    /\ start = NoPoint
    /\ end = NoPoint
    /\ start_selected = FALSE
    /\ end_selected = FALSE
    /\ paths_found_and_drawn = FALSE

initialize_grid ==
    /\ \E walls \in WallMasks :
         /\ grid' = [y \in Ys |-> [x \in Xs |->
                       IF Pt(x, y) \in walls THEN "CELL_WALL" ELSE "CELL_EMPTY"]]
    /\ grid_path_type' = [y \in Ys |-> [x \in Xs |-> "CELL_EMPTY"]]
    /\ start' = NoPoint
    /\ end' = NoPoint
    /\ start_selected' = FALSE
    /\ end_selected' = FALSE
    /\ paths_found_and_drawn' = FALSE
    /\ searches' = <<>>
    /\ outcome' = "init"
    /\ UNCHANGED build

\* screen coordinates of the clicks tried along an axis of n cells: one in
\* every cell, both edges of the grid area, and the two sides just outside
ClickCoords(n) ==
    {-CELL_SIZE, -1, n * CELL_SIZE - 1, n * CELL_SIZE}
        \cup {c * CELL_SIZE : c \in 0 .. (n - 2)}

Builds ==
    /\ GRID_WIDTH \in 1 .. MaxWidth
    /\ GRID_HEIGHT \in 1 .. MaxHeight
    /\ K_PATHS \in 1 .. MaxK

\* main(): the state after initialize_grid()
Init ==
    /\ Builds
    /\ \E walls \in WallMasks : FreshGrid(walls)
    /\ searches = <<>>
    /\ outcome = "init"

Next ==
    \/ \E x \in ClickCoords(GRID_WIDTH), y \in ClickCoords(GRID_HEIGHT) :
          handle_click(x, y)
    \/ reset_grid
    \/ initialize_grid

Spec == Init /\ [][Next]_vars

----------------------------------------------------------------------------
\* dijkstra_find_path as a function of its inputs: any wall mask, any rank
\* labelling, any in-bounds source and sink

RankedSets == {S \in SUBSET Cells : Cardinality(S) <= MaxRanked}

InitSearch ==
    /\ Builds
    /\ K_PATHS = MaxK
    /\ \E walls \in WallMasks, ranked \in RankedSets :
         /\ grid = [y \in Ys |-> [x \in Xs |->
                      IF Pt(x, y) \in walls THEN "CELL_WALL" ELSE "CELL_EMPTY"]]
         /\ grid_path_type = [y \in Ys |-> [x \in Xs |->
                      IF Pt(x, y) \in ranked
                      THEN PathType((x + y) % K_PATHS) ELSE "CELL_EMPTY"]]
    /\ start \in Cells
    /\ end \in Cells
    /\ start_selected = TRUE
    /\ end_selected = TRUE
    /\ paths_found_and_drawn = TRUE
    /\ searches = <<>>
    /\ outcome = "init"

SearchOnce ==
    /\ searches = <<>>
    /\ searches' = <<dijkstra_run(grid, grid_path_type, start, end)>>
    /\ outcome' = "searched"
    /\ UNCHANGED <<prog, build>>

NextSearch == SearchOnce

SpecSearch == InitSearch /\ [][NextSearch]_vars

----------------------------------------------------------------------------
\* Reference notions the properties are stated with

Blocked(c) ==
    grid[c.y][c.x] = "CELL_WALL" \/ grid_path_type[c.y][c.x] # "CELL_EMPTY"

Adjacent(a, b) ==
    \/ (a.x = b.x /\ (a.y - b.y = 1 \/ b.y - a.y = 1))
    \/ (a.y = b.y /\ (a.x - b.x = 1 \/ b.x - a.x = 1))

\* length of a shortest 4-neighbour route from the cells of frontier (at
\* distance d) to target that steps only onto target or unblocked cells;
\* -1 if there is none
RECURSIVE RouteLen(_, _, _, _)
RouteLen(frontier, seen, d, target) ==
    IF target \in frontier THEN d
    ELSE LET nxt == {n \in Cells \ seen :
                        /\ (n = target \/ ~Blocked(n))
                        /\ \E c \in frontier : Adjacent(c, n)}
         IN  IF nxt = {} THEN -1
             ELSE RouteLen(nxt, seen \cup nxt, d + 1, target)

ShortestRoute(s, e) == RouteLen({s}, {s}, 0, e)

\* the paths found by the searches made so far
Found == SelectSeq(searches, LAMBDA r : r.path.cost # -1)

Interior(path) ==
    {path.points[i] : i \in 1 .. path.length} \ {start, end}

Searched == outcome = "searched"
LoopRan == outcome = "end_set"

----------------------------------------------------------------------------
\* C1: for every grid, every in-bounds unblocked source and every in-bounds
\* sink, the search returns the length of a shortest route that steps only
\* onto the sink or onto cells that are neither Wall nor rank-labelled, and
\* cost = -1 with length = 0 when there is no such route.
C1_MinimalCost ==
    (Searched /\ ~Blocked(start)) =>
        LET p == searches[1].path
            d == ShortestRoute(start, end)
        IN  /\ p.cost = d
            /\ (d = -1 => p.length = 0)

\* a search from an unblocked source that had to go round blocked cells
C1_Witness ==
    /\ Searched /\ ~Blocked(start)
    /\ searches[1].path.cost = 4
    /\ start.y = end.y /\ (start.x - end.x = 2 \/ end.x - start.x = 2)

\* C4: every path returned with cost # -1 starts at Start, ends at End, is
\* 4-connected step by step, and has cost = length - 1.
C4_PathIsChain ==
    \A k \in 1 .. Len(searches) :
        LET p == searches[k].path IN
        p.cost # -1 =>
            /\ p.length = Len(p.points)
            /\ p.length >= 1
            /\ p.points[1] = start
            /\ p.points[p.length] = end
            /\ \A i \in 1 .. (p.length - 1) :
                   Adjacent(p.points[i], p.points[i + 1])
            /\ p.cost = p.length - 1

C4_Witness ==
    /\ Searched
    /\ searches[1].path.cost = 4
    /\ searches[1].path.length = 5

\* C2: after the K-pass loop of the End click, any two found paths of
\* different ranks share no cell other than Start and End.
C2_Disjoint ==
    LoopRan =>
        \A i \in 1 .. Len(Found) : \A j \in 1 .. Len(Found) :
            i # j => Interior(Found[i].path) \cap Interior(Found[j].path) = {}

\* two paths were found and both have interior cells
C2_Witness ==
    /\ LoopRan
    /\ Len(Found) >= 2
    /\ Interior(Found[1].path) # {}
    /\ Interior(Found[2].path) # {}

\* C3: the costs of the paths found by the successive searches of the loop
\* are non-decreasing in rank order.
C3_MonotonicCost ==
    LoopRan =>
        \A i \in 1 .. (Len(Found) - 1) :
            Found[i].path.cost <= Found[i + 1].path.cost

\* a later path that is strictly longer than the one before it
C3_Witness ==
    /\ LoopRan
    /\ Len(Found) >= 2
    /\ Found[1].path.cost < Found[2].path.cost

NoWalls == \A c \in Cells : grid[c.y][c.x] # "CELL_WALL"

Costs(runs) == [i \in 1 .. Len(runs) |-> runs[i].path.cost]

Scenario3x3 ==
    /\ GRID_WIDTH = 3 /\ GRID_HEIGHT = 3 /\ K_PATHS = 3
    /\ NoWalls
    /\ LoopRan
    /\ start = Pt(0, 0) /\ end = Pt(2, 0)

\* C5 as stated: on a 3x3 grid with no walls, Start=(0,0), End=(2,0), K=3,
\* the loop finds three paths of costs [2, 4, 4].
C5_AsStated ==
    Scenario3x3 => Costs(Found) = <<2, 4, 4>>

\* C5, amended: in that scenario the loop finds two paths, of costs [2, 4],
\* and the third search returns cost -1: once (1,0) and (0,1) are labelled
\* the corner cell Start has no free neighbour left.
C5_TwoPaths ==
    Scenario3x3 =>
        /\ Costs(Found) = <<2, 4>>
        /\ Costs(searches) = <<2, 4, -1>>

C5_Witness ==
    /\ Scenario3x3
    /\ Len(searches) = 3
    /\ grid_path_type[0][1] = "CELL_PATH_1"
    /\ grid_path_type[1][0] = "CELL_PATH_2"

Scenario3x1 ==
    /\ GRID_WIDTH = 3 /\ GRID_HEIGHT = 1 /\ K_PATHS = 2
    /\ NoWalls
    /\ LoopRan
    /\ start = Pt(0, 0) /\ end = Pt(2, 0)

\* C6: on a 3x1 grid with no walls, Start=(0,0), End=(2,0), K=2, the first
\* search returns cost 2, the second returns cost -1, and exactly one path
\* is reported.
C6_SingleRow ==
    Scenario3x1 =>
        /\ Costs(searches) = <<2, -1>>
        /\ Len(Found) = 1

C6_Witness ==
    /\ Scenario3x1
    /\ Len(searches) = 2
    /\ grid_path_type[0][1] = "CELL_PATH_1"

\* the interiors (as sets of cells) of the simple routes that lead from cur
\* to End over cells that are not walls, used being the interior so far
RECURSIVE RoutesFrom(_, _)
RoutesFrom(cur, used) ==
    (IF Adjacent(cur, end) THEN {used} ELSE {})
    \cup UNION {RoutesFrom(n, used \cup {n}) :
                  n \in {m \in Cells : /\ Adjacent(cur, m)
                                       /\ m \notin used
                                       /\ m # start /\ m # end
                                       /\ grid[m.y][m.x] # "CELL_WALL"}}

RouteInteriors == RoutesFrom(start, {})

\* avail holds k distinct routes whose interiors are pairwise disjoint
RECURSIVE HasDisjoint(_, _)
HasDisjoint(k, avail) ==
    \/ k = 0
    \/ \E I \in avail :
          HasDisjoint(k - 1, {J \in avail : J # I /\ J \cap I = {}})

\* C7 as stated: if fewer than K pairwise interior-disjoint distinct
\* Start-to-End routes exist, the loop returns strictly fewer than K paths
\* and finishes Done (adjacent Start and End included).
C7_AsStated ==
    (LoopRan /\ ~HasDisjoint(K_PATHS, RouteInteriors)) =>
        /\ Len(Found) < K_PATHS
        /\ paths_found_and_drawn

C9_SinkException ==
    ( /\ Searched
      /\ Blocked(end)
      /\ ~Blocked(start)
      /\ \E n \in Cells : /\ Adjacent(n, end)
                          /\ ~Blocked(n)
                          /\ ShortestRoute(start, n) # -1 ) =>
        LET p == searches[1].path IN
        /\ p.cost # -1
        /\ p.points[p.length] = end
        /\ \A i \in 1 .. (p.length - 1) : ~Blocked(p.points[i])

\* a blocked sink reached over at least one intermediate cell
C9_Witness ==
    /\ Searched
    /\ Blocked(end)
    /\ ~Blocked(start)
    /\ searches[1].path.cost >= 2

\* a click that the designation rules refuse: its cell is outside the grid,
\* or is a Wall, or is the Start cell while End is being chosen
Refused(x, y) ==
    LET p == screen_to_grid(x, y) IN
    \/ ~InBounds(p.x, p.y)
    \/ grid[p.y][p.x] = "CELL_WALL"
    \/ (start_selected /\ ~end_selected /\ p = start)

\* a step of handle_click (reset_grid and initialize_grid leave their own
\* marks in outcome)
ClickStep == outcome' \notin {"init", "reset"}

\* C10: a refused designation click changes neither grid, grid_path_type,
\* start, end, start_selected, end_selected nor paths_found_and_drawn, and
\* starts no search: a click step that changes any of them is the step of
\* no refused click.
C10_RefusedClickChangesNothing ==
    [][(ClickStep /\ ~UNCHANGED <<prog, searches>>) =>
          \A x \in ClickCoords(GRID_WIDTH), y \in ClickCoords(GRID_HEIGHT) :
              Refused(x, y) => ~handle_click(x, y)]_vars

\* a wall was clicked while End was being chosen
C10_Witness ==
    /\ outcome = "wall"
    /\ start_selected
    /\ ~end_selected

----------------------------------------------------------------------------
\* C11: the session goes Idle -> AwaitingEnd (Start set) -> Done in that
\* order; once the End click has run the K-pass loop, every further click
\* leaves the whole state unchanged and runs no search until reset_grid or
\* initialize_grid; no search runs before both Start and End are designated.
C11_StateOrder ==
    /\ (end_selected => start_selected)
    /\ (end_selected <=> paths_found_and_drawn)
    /\ (searches # <<>> <=> paths_found_and_drawn)

C11_Steps ==
    ClickStep =>
        /\ (paths_found_and_drawn => UNCHANGED <<prog, searches>>)
        /\ (~start_selected => (~end_selected' /\ searches' = <<>>))
        /\ (searches' # searches =>
               /\ start_selected /\ ~end_selected
               /\ end_selected' /\ paths_found_and_drawn')

C11_DoneIsTerminal == [](C11_StateOrder) /\ [][C11_Steps]_vars

\* a click arrived after the loop had run
C11_Witness ==
    /\ outcome = "already_found"
    /\ paths_found_and_drawn
    /\ Len(searches) >= 2

----------------------------------------------------------------------------
IsWall(g, c) == g[c.y][c.x] = "CELL_WALL"

\* C12: reset_grid leaves the wall mask unchanged, sets every non-wall cell
\* to Empty and every rank label to None, and clears Start, End and the done
\* flag, so that the next valid click designates a new Start; only
\* initialize_grid may change the wall mask.
C12_ResetStep ==
    reset_grid =>
        /\ \A c \in Cells :
              /\ IsWall(grid', c) <=> IsWall(grid, c)
              /\ ~IsWall(grid', c) => grid'[c.y][c.x] = "CELL_EMPTY"
              /\ grid_path_type'[c.y][c.x] = "CELL_EMPTY"
        /\ ~start_selected' /\ ~end_selected' /\ ~paths_found_and_drawn'
        /\ start' = NoPoint /\ end' = NoPoint

C12_AfterReset ==
    (outcome = "reset" /\ ClickStep /\ ~UNCHANGED prog) =>
        /\ outcome' = "start_set"
        /\ start_selected' /\ ~end_selected'
        /\ start' \in Cells

C12_WallsChange ==
    (\E c \in Cells : IsWall(grid', c) # IsWall(grid, c)) => outcome' = "init"

C12_SoftReset ==
    [][C12_ResetStep /\ C12_AfterReset /\ C12_WallsChange]_vars

\* a soft reset was made on a grid that has walls
C12_Witness ==
    /\ outcome = "reset"
    /\ \E c \in Cells : IsWall(grid, c)
    /\ \E c \in Cells : ~IsWall(grid, c)

----------------------------------------------------------------------------
\* the CellType that marks rank r (lines 20-24)
RankName(r) ==
    CASE r = 1 -> "CELL_PATH_1"
      [] r = 2 -> "CELL_PATH_2"
      [] r = 3 -> "CELL_PATH_3"
      [] r = 4 -> "CELL_PATH_4"
      [] r = 5 -> "CELL_PATH_5"

Ranks == 1 .. 5

\* C13: a cell carries rank label r if and only if it is an interior cell of
\* the path found by the r-th search of the loop; no Wall cell, and neither
\* the Start cell nor the End cell, carries a rank label in any reachable
\* state.
C13_LabelsAreInteriors ==
    /\ \A c \in Cells :
          /\ grid_path_type[c.y][c.x] \in {"CELL_EMPTY"} \cup {RankName(r) : r \in Ranks}
          /\ \A r \in Ranks :
                grid_path_type[c.y][c.x] = RankName(r) <=>
                    (r <= Len(Found) /\ c \in Interior(Found[r].path))
          /\ (IsWall(grid, c) \/ c = start \/ c = end) =>
                grid_path_type[c.y][c.x] = "CELL_EMPTY"
    /\ Len(Found) <= K_PATHS

\* the loop has labelled the interiors of two paths
C13_Witness ==
    /\ LoopRan
    /\ Len(Found) >= 2
    /\ \E c \in Cells : grid_path_type[c.y][c.x] = "CELL_PATH_1"
    /\ \E c \in Cells : grid_path_type[c.y][c.x] = "CELL_PATH_2"
    /\ \E c \in Cells : IsWall(grid, c)

----------------------------------------------------------------------------
\* the labelling in which exactly the interiors of the first j found paths
\* carry their ranks
LabelsAfter(j) ==
    [y \in Ys |-> [x \in Xs |->
        IF \E r \in 1 .. j : Pt(x, y) \in Interior(Found[r].path)
        THEN RankName(CHOOSE r \in 1 .. j :
                         /\ Pt(x, y) \in Interior(Found[r].path)
                         /\ \A q \in 1 .. j :
                               Pt(x, y) \in Interior(Found[q].path) => q <= r)
        ELSE "CELL_EMPTY"]]

\* C14: an invocation of dijkstra_find_path leaves grid, grid_path_type,
\* start and end as they are; labels are written only by the loop, after a
\* search has returned and before the next one starts: the i-th search of
\* the loop is the search of the grid in which exactly the interiors of the
\* first i-1 found paths are labelled, and a cell gains a label only in the
\* step of the End click.
C14_SearchSeesEarlierLabels ==
    \A i \in 1 .. Len(searches) :
        searches[i] = dijkstra_run(grid, LabelsAfter(i - 1), start, end)

C14_LabelSteps ==
    (\E c \in Cells : /\ grid_path_type[c.y][c.x] = "CELL_EMPTY"
                      /\ grid_path_type'[c.y][c.x] # "CELL_EMPTY") =>
        /\ outcome' = "end_set"
        /\ searches = <<>> /\ searches' # <<>>
        /\ start' = start /\ start_selected' = start_selected

C14_SearchIsReadOnly ==
    [](C14_SearchSeesEarlierLabels) /\ [][C14_LabelSteps]_vars

\* a failed search followed two successful ones, each of which labelled cells
C14_Witness ==
    /\ LoopRan
    /\ Len(searches) = 3
    /\ searches[3].path.cost = -1
    /\ Interior(searches[1].path) # {}
    /\ Interior(searches[2].path) # {}

----------------------------------------------------------------------------
CellsOfKind(k) == {c \in Cells : grid[c.y][c.x] = k}

\* C15: in every reachable state at most one cell has kind Start and at most
\* one has kind End; exactly one cell has kind Start iff start_selected, and
\* it is the cell start; exactly one cell has kind End iff end_selected, and
\* it is the cell end; Start and End are different cells.
C15_OneStartOneEnd ==
    /\ CellsOfKind("CELL_START") = (IF start_selected THEN {start} ELSE {})
    /\ CellsOfKind("CELL_END") = (IF end_selected THEN {end} ELSE {})
    /\ start_selected => start \in Cells
    /\ end_selected => end \in Cells
    /\ ~start_selected => start = NoPoint
    /\ ~end_selected => end = NoPoint
    /\ (start_selected /\ end_selected) => start # end

\* both designations are in place
C15_Witness ==
    /\ start_selected /\ end_selected
    /\ grid[start.y][start.x] = "CELL_START"
    /\ grid[end.y][end.x] = "CELL_END"

----------------------------------------------------------------------------
\* a 3x3 grid whose only wall is (0,0), Start=(2,0), End=(0,1), K=2
ScenarioGreedy ==
    /\ GRID_WIDTH = 3 /\ GRID_HEIGHT = 3 /\ K_PATHS = 2
    /\ \A c \in Cells : IsWall(grid, c) <=> c = Pt(0, 0)
    /\ LoopRan
    /\ start = Pt(2, 0) /\ end = Pt(0, 1)

\* C16: the greedy loop can under-find: there are a grid with walls, a Start,
\* an End and a K >= 2 for which K pairwise interior-disjoint routes exist
\* and the loop returns fewer than K paths.  Here the routes over (1,0),(1,1)
\* and over (2,1),(2,2),(1,2),(0,2) are disjoint, and the first search takes
\* (2,1),(1,1), which cuts both.
C16_GreedyUnderFinds ==
    ScenarioGreedy =>
        /\ K_PATHS >= 2
        /\ HasDisjoint(K_PATHS, RouteInteriors)
        /\ {{Pt(1, 0), Pt(1, 1)}, {Pt(2, 1), Pt(2, 2), Pt(1, 2), Pt(0, 2)}}
               \subseteq RouteInteriors
        /\ Len(Found) < K_PATHS
        /\ Costs(searches) = <<3, -1>>

C16_Witness ==
    /\ ScenarioGreedy
    /\ Len(Found) = 1
    /\ Interior(Found[1].path) = {Pt(2, 1), Pt(1, 1)}
    /\ HasDisjoint(2, RouteInteriors)

----------------------------------------------------------------------------
\* C17: in every search the K-pass loop invokes, the Start cell is in bounds,
\* is not a Wall and carries no rank label, so neither the early 'Start is
\* blocked' return nor its no-op alternative is taken.
C17_StartAlwaysValid ==
    searches # <<>> =>
        /\ InBounds(start.x, start.y)
        /\ ~Blocked(start)
        /\ \A i \in 1 .. Len(searches) :
              /\ is_valid_position(grid, LabelsAfter(i - 1), start.x, start.y)
              /\ searches[i].peak >= 1
              /\ searches[i].explored >= 1

\* the loop made a search after it had labelled cells next to Start
C17_Witness ==
    /\ LoopRan
    /\ Len(searches) >= 2
    /\ \E c \in Cells : Adjacent(c, start) /\ grid_path_type[c.y][c.x] # "CELL_EMPTY"
    /\ \E c \in Cells : Adjacent(c, start) /\ IsWall(grid, c)

----------------------------------------------------------------------------
\* C18: during any search the number of entries in the frontier array never
\* exceeds its capacity GRID_WIDTH * GRID_HEIGHT, for every wall mask, rank
\* labelling, Start and End.
C18_FrontierFits ==
    \A i \in 1 .. Len(searches) :
        searches[i].peak <= GRID_WIDTH * GRID_HEIGHT

\* a search whose frontier held several entries at once
C18_Witness ==
    /\ Searched
    /\ searches[1].peak >= 4
    /\ searches[1].explored >= 5

----------------------------------------------------------------------------
\* C19: every invocation of dijkstra_find_path terminates, its while loop
\* running at most GRID_WIDTH * GRID_HEIGHT times, and the K-pass loop of the
\* End click reaches Done after at least one and at most K searches: it
\* stops at the first search that returns cost -1 and runs none after it.
C19_LoopTerminates ==
    /\ \A i \in 1 .. Len(searches) :
          /\ searches[i].iterations <= GRID_WIDTH * GRID_HEIGHT
          /\ searches[i].explored <= searches[i].iterations
          /\ (searches[i].path.cost = -1 => i = Len(searches))
    /\ LoopRan =>
          /\ paths_found_and_drawn /\ end_selected
          /\ Len(searches) >= 1
          /\ Len(searches) <= K_PATHS
          /\ (Len(searches) < K_PATHS =>
                 searches[Len(searches)].path.cost = -1)

\* the loop stopped early, at a search that emptied its frontier after
\* visiting several cells
C19_Witness ==
    /\ LoopRan
    /\ K_PATHS = 3
    /\ Len(searches) = 2
    /\ searches[2].path.cost = -1
    /\ searches[2].iterations >= 3

----------------------------------------------------------------------------
\* the screen point lies outside the drawn grid area
OutsideArea(x, y) ==
    \/ x < 0
    \/ x >= GRID_WIDTH * CELL_SIZE
    \/ y < 0
    \/ y >= GRID_HEIGHT * CELL_SIZE

\* C20: handle_click ignores every click whose screen coordinates lie outside
\* [0, GRID_WIDTH*CELL_SIZE) x [0, GRID_HEIGHT*CELL_SIZE), the coordinates in
\* (-CELL_SIZE, 0) included: a click step that designates Start or End is
\* the step of no click outside the area.
C20_AsStated ==
    [][(ClickStep /\ ~UNCHANGED <<start_selected, end_selected>>) =>
          \A x \in ClickCoords(GRID_WIDTH), y \in ClickCoords(GRID_HEIGHT) :
              OutsideArea(x, y) => ~handle_click(x, y)]_vars

====
